---- MODULE Spec2Model ----
(***************************************************************************)
(* A model of the download-and-log pipeline of donutpluginutils (app.py):  *)
(* the dependency expansion of DownloaderApp.start_download, the batch     *)
(* worker it starts, download_file, and the run log with save_log.         *)
(***************************************************************************)
EXTENDS Integers, Sequences, FiniteSets, TLC

(***************************************************************************)
(* Bounds of the model.                                                    *)
(***************************************************************************)
\* longest catalog (plugins.json) drawn
MaxCatalog == 4
\* most dependency edges (entries of all lists of dependencies.json) drawn
MaxEdges == 2

\* The names plugins.json, dependencies.json and the selection are drawn from.
NameOrder == <<"A", "B", "C", "D">>
Names == {NameOrder[i] : i \in 1..Len(NameOrder)}
NameIdx(n) == CHOOSE i \in 1..Len(NameOrder) : NameOrder[i] = n

\* Python's None, and None where a catalog item is expected
None == "None"
NoItem == [name |-> None, url |-> 0]

(***************************************************************************)
(* Sequence helpers.                                                       *)
(***************************************************************************)
Range(s) == {s[i] : i \in 1..Len(s)}
NamesOf(items) == [i \in 1..Len(items) |-> items[i].name]
NoDuplicates(s) == \A i, j \in 1..Len(s) : s[i] = s[j] => i = j
Max(S) == CHOOSE x \in S : \A y \in S : y <= x

VARIABLES
    \* ---- DownloaderApp state read by start_download
    download_items,     \* self.download_items: the catalog, a list of {name, url}
    selected_items,     \* self.selected_items: the selected names
    deps_map,           \* load_dependencies(): name -> list of names
    \* ---- start_download (runs on the UI thread)
    pc_ui,              \* where start_download stands
    alert,              \* the CustomAlertDialog last shown
    items_to_download,  \* local list of start_download
    names_only,         \* the names the confirmation dialog showed
    dlg_action,         \* DownloadConfirmDialog.action
    extra_items,        \* dependencies found so far
    to_process,         \* queue of names
    processed,          \* visited names
    iterations,         \* history: iterations of the while loop so far
    spawned,            \* the lists handed to worker threads so far
    \* ---- download_file's chunk loop, lines 109-128
    total,              \* the declared Content-Length, 0 when none
    body_left,          \* bytes the response will still deliver
    exact_chunks,       \* TRUE: iter_content fills every chunk but the last
    downloaded,         \* bytes written so far
    next_percent_log,   \* the next threshold, in percent
    progress_log,       \* the progress lines logged: threshold and bytes then
    status_calls,       \* calls of status_cb made by the loop
    empty_chunks,       \* history: zero-length chunks met so far
    pc_dl,              \* "loop" while chunks are read, then "saved"
    \* ---- the run log and the UI variables, shared by all threads
    log_lines,          \* self.log_lines
    log_files,          \* the files of LOGS_DIR: name -> text
    ready_var,          \* self.ready_var
    \* ---- the worker threads of start_download
    wk,                 \* per thread: its position and its locals
    \* ---- the run log's lock, and the calls of log, reset_log, get_log_text
    log_lock,           \* self.log_lock: the thread holding it, or None
    th,                 \* per thread: the call it is in
    appended,           \* history: the lines appended since the last reset
    \* ---- the threads that have gone to the network
    net_calls           \* history: the blocking network calls made, and by whom

expVars == <<download_items, selected_items, deps_map, pc_ui, alert,
             items_to_download, names_only, dlg_action, extra_items,
             to_process, processed, iterations, spawned>>

dlVars == <<total, body_left, exact_chunks, downloaded, next_percent_log,
            progress_log, status_calls, empty_chunks, pc_dl>>

batchVars == <<log_lines, log_files, ready_var, wk>>

lockVars == <<log_lock, th, appended>>

vars == <<expVars, dlVars, batchVars, lockVars, net_calls>>

(***************************************************************************)
(* Inputs of start_download.  Names are interchangeable, so a catalog is   *)
(* drawn with its names in order of first appearance (A, then B, ...); a   *)
(* name may repeat, since nothing in load_download_items forbids it.  The  *)
(* names the catalog does not use are the ones dependencies.json or the    *)
(* selection may mention without a catalog entry.                          *)
(***************************************************************************)
FirstAppearanceOrder(f) ==
    \A i \in DOMAIN f :
        NameIdx(f[i]) <= 1 + Max({0} \cup {NameIdx(f[j]) : j \in 1..(i-1)})

CatalogNameSeqs ==
    UNION {{f \in [1..k -> Names] : FirstAppearanceOrder(f)} : k \in 0..MaxCatalog}

Catalogs ==
    {[i \in 1..Len(f) |-> [name |-> f[i], url |-> i]] : f \in CatalogNameSeqs}

\* dependencies.json as the list of its (key, dependency) entries, in file order
Edges == Names \X Names
EdgeSeqs == UNION {[1..k -> Edges] : k \in 0..MaxEdges}

RECURSIVE DepsOfIn(_, _)
DepsOfIn(key, es) ==
    IF es = <<>> THEN <<>>
    ELSE IF Head(es)[1] = key THEN <<Head(es)[2]>> \o DepsOfIn(key, Tail(es))
         ELSE DepsOfIn(key, Tail(es))

\* A key with an empty list behaves as a missing key (the loop of line 1014
\* runs zero times), so only keys with at least one dependency are drawn.
MapOfEdges(es) ==
    [key \in {e[1] : e \in Range(es)} |-> DepsOfIn(key, es)]

DepsMaps == {MapOfEdges(es) : es \in EdgeSeqs}

(***************************************************************************)
(* start_download, lines 960-1057.                                         *)
(***************************************************************************)
\* the whole catalog taken, whatever is selected (the filter of line 975 forgotten)
SelectItems_All(catalog, selected) == catalog

\* lines 974-976: the catalog items whose name is selected, in catalog order
SelectItems(catalog, selected) ==
    SelectSeq(catalog, LAMBDA item : item.name \in selected)

\* lines 996-1000: the first catalog item of that name, or None
find_item_by_name(name) ==
    IF \E i \in 1..Len(download_items) : download_items[i].name = name
    THEN download_items[CHOOSE i \in 1..Len(download_items) :
            /\ download_items[i].name = name
            /\ \A j \in 1..(i-1) : download_items[j].name # name]
    ELSE NoItem

\* A queue popped at its end: to_process.pop() for to_process.pop(0).
QueuePop_Last(queue) ==
    [name |-> queue[Len(queue)], rest |-> SubSeq(queue, 1, Len(queue) - 1)]

\* line 1011: to_process.pop(0)
QueuePop(queue) == [name |-> Head(queue), rest |-> Tail(queue)]

\* DepStep without processed.add(dep_name) (line 1019 forgotten).
DepStep_NoMark(st, dep_name) ==
    IF dep_name \notin st.processed
    THEN LET dep_item == find_item_by_name(dep_name)
         IN  IF dep_item # NoItem
             THEN [extra     |-> Append(st.extra, dep_item),
                   processed |-> st.processed,
                   queue     |-> Append(st.queue, dep_name)]
             ELSE st
    ELSE st

\* DepStep without the visited test of line 1015.
DepStep_NoVisitedCheck(st, dep_name) ==
    LET dep_item == find_item_by_name(dep_name)
    IN  IF dep_item # NoItem
        THEN [extra     |-> Append(st.extra, dep_item),
              processed |-> st.processed \cup {dep_name},
              queue     |-> Append(st.queue, dep_name)]
        ELSE st

\* DepStep without the "if dep_item" test of line 1017.
DepStep_NoFoundCheck(st, dep_name) ==
    IF dep_name \notin st.processed
    THEN [extra     |-> Append(st.extra, find_item_by_name(dep_name)),
          processed |-> st.processed \cup {dep_name},
          queue     |-> Append(st.queue, dep_name)]
    ELSE st

\* DepStep with processed.add(dep_name) moved out of the "if dep_item": a
\* name without a catalog entry is marked visited too.
DepStep_MarkAbsent(st, dep_name) ==
    IF dep_name \notin st.processed
    THEN LET dep_item == find_item_by_name(dep_name)
         IN  IF dep_item # NoItem
             THEN [extra     |-> Append(st.extra, dep_item),
                   processed |-> st.processed \cup {dep_name},
                   queue     |-> Append(st.queue, dep_name)]
             ELSE [st EXCEPT !.processed = @ \cup {dep_name}]
    ELSE st

\* lines 1015-1020: one dependency name of the current item.
\* st = [extra, processed, queue]
DepStep(st, dep_name) ==
    IF dep_name \notin st.processed
    THEN LET dep_item == find_item_by_name(dep_name)
         IN  IF dep_item # NoItem
             THEN [extra     |-> Append(st.extra, dep_item),
                   processed |-> st.processed \cup {dep_name},
                   queue     |-> Append(st.queue, dep_name)]
             ELSE st
    ELSE st

\* the for loop of line 1014 left after its first name
ForEachDep_FirstOnly(st, deps) ==
    IF deps = <<>> THEN st ELSE DepStep(st, Head(deps))

\* line 1014: for dep_name in deps_map[current_name]
RECURSIVE ForEachDep(_, _)
ForEachDep(st, deps) ==
    IF deps = <<>> THEN st
    ELSE ForEachDep(DepStep(st, Head(deps)), Tail(deps))

\* line 1023: items_to_download.extend(extra_items)
ExtendItems(items, extra) == items \o extra

\* the thread of the Tk main loop, which runs the button commands
UiThread == "ui"
\* a blocking requests.get (lines 85, 107), with the thread that makes it
NetCall(op, thread) == [op |-> op, on |-> thread]

\* lines 962-980: the preconditions, then the confirmation dialog opens; the
\* first of them, check_internet_connection (lines 82-88), is a requests.get
\* made by the calling thread
StartDownload ==
    /\ pc_ui = "idle"
    /\ \E online \in BOOLEAN, download_dir \in {None, "plugins"} :
        LET matching == SelectItems(download_items, selected_items)
        IN  IF ~online
            THEN /\ alert' = "Please enable wifi"
                 /\ pc_ui' = "returned"
                 /\ UNCHANGED <<items_to_download, names_only>>
            ELSE IF download_dir = None
            THEN /\ alert' = "Please choose a plugin folder."
                 /\ pc_ui' = "returned"
                 /\ UNCHANGED <<items_to_download, names_only>>
            ELSE IF selected_items = {}
            THEN /\ alert' = "Please select at least one download."
                 /\ pc_ui' = "returned"
                 /\ UNCHANGED <<items_to_download, names_only>>
            ELSE IF matching = <<>>
            THEN /\ alert' = "No matching downloads found."
                 /\ pc_ui' = "returned"
                 /\ items_to_download' = matching
                 /\ UNCHANGED names_only
            ELSE /\ items_to_download' = matching
                 /\ names_only' = NamesOf(matching)
                 /\ pc_ui' = "confirm"
                 /\ UNCHANGED alert
    /\ net_calls' = net_calls \cup {NetCall("probe", UiThread)}
    /\ UNCHANGED <<download_items, selected_items, deps_map, dlg_action,
                   extra_items, to_process, processed, iterations, spawned>>
    /\ UNCHANGED <<dlVars, batchVars, lockVars>>

\* the expansion run whatever button closed the dialog
WantsDependencies_Always(action) == TRUE

\* line 991: if dlg.action == "dependencies"
WantsDependencies(action) == action = "dependencies"

\* lines 985-988 and 364-378: the user's answer; lines 991-1008 on "dependencies"
Confirm ==
    /\ pc_ui = "confirm"
    /\ \E action \in {"download", "dependencies", None} :
        /\ dlg_action' = action
        /\ IF action = None
           THEN /\ pc_ui' = "returned"
                /\ UNCHANGED <<to_process, processed>>
           ELSE IF WantsDependencies(action)
           THEN /\ to_process' = NamesOf(items_to_download)
                /\ processed' = Range(NamesOf(items_to_download))
                /\ pc_ui' = "expand"
           ELSE /\ pc_ui' = "spawn"
                /\ UNCHANGED <<to_process, processed>>
    /\ UNCHANGED <<download_items, selected_items, deps_map, alert,
                   items_to_download, names_only, extra_items, iterations,
                   spawned>>
    /\ UNCHANGED <<dlVars, batchVars, lockVars, net_calls>>

\* lines 1010-1020: one iteration of the while loop
ExpandStep ==
    /\ pc_ui = "expand"
    /\ to_process # <<>>
    /\ LET popped == QueuePop(to_process)
           deps   == IF popped.name \in DOMAIN deps_map
                     THEN deps_map[popped.name] ELSE <<>>
           st     == ForEachDep([extra |-> extra_items, processed |-> processed,
                                 queue |-> popped.rest], deps)
       IN  /\ extra_items' = st.extra
           /\ processed' = st.processed
           /\ to_process' = st.queue
    /\ iterations' = iterations + 1
    /\ UNCHANGED <<download_items, selected_items, deps_map, pc_ui, alert,
                   items_to_download, names_only, dlg_action, spawned>>
    /\ UNCHANGED <<dlVars, batchVars, lockVars, net_calls>>

\* lines 1010, 1022-1025: the queue is empty; the extras join the list
ExpandDone ==
    /\ pc_ui = "expand"
    /\ to_process = <<>>
    /\ IF extra_items # <<>>
       THEN /\ items_to_download' = ExtendItems(items_to_download, extra_items)
            /\ alert' = "Added dependencies to the download queue."
       ELSE UNCHANGED <<items_to_download, alert>>
    /\ pc_ui' = "spawn"
    /\ UNCHANGED <<download_items, selected_items, deps_map, names_only,
                   dlg_action, extra_items, to_process, processed, iterations,
                   spawned>>
    /\ UNCHANGED <<dlVars, batchVars, lockVars, net_calls>>

\* line 1057: the worker thread starts on the list
SpawnWorker ==
    /\ pc_ui = "spawn"
    /\ spawned' = Append(spawned, items_to_download)
    /\ pc_ui' = "returned"
    /\ UNCHANGED <<download_items, selected_items, deps_map, alert,
                   items_to_download, names_only, dlg_action, extra_items,
                   to_process, processed, iterations>>
    /\ UNCHANGED <<dlVars, batchVars, lockVars, net_calls>>

(***************************************************************************)
(* download_file, lines 109-128: the chunk loop and its progress reports.  *)
(***************************************************************************)
\* line 111
chunk_size == 8192
\* line 112: the first threshold; line 124: the step between thresholds
first_percent_log == 5
percent_step == 5
\* line 127: 256 * 1024
status_every == 262144

\* The responses drawn: [total: the declared Content-Length (0: none),
\* body: the bytes delivered, exact: whether every chunk but the last is full].
Responses ==
    {[total |-> 1000000, body |-> 1000000, exact |-> TRUE],
     [total |-> 0, body |-> 600000, exact |-> TRUE],
     [total |-> 40960, body |-> 40960, exact |-> FALSE],
     [total |-> 49152, body |-> 49152, exact |-> FALSE],
     [total |-> 0, body |-> 24576, exact |-> FALSE]}

\* most zero-length chunks one response delivers
MaxEmptyChunks == 2

\* the lengths iter_content(chunk_size) may yield next; b"" is a keep-alive chunk
ChunkLens ==
    IF exact_chunks
    THEN {IF body_left < chunk_size THEN body_left ELSE chunk_size}
    ELSE {n \in {0, 2048, chunk_size} : n <= body_left}

\* the threshold never advanced (line 124 forgotten)
NextThreshold_Stuck(next) == next

\* line 124: next_percent_log += 5
NextThreshold(next) == next + percent_step

\* lines 120-121: percent = downloaded / total * 100; percent >= next_percent_log.
\* The quotient is compared exactly; Python's float product agrees with it at
\* every threshold up to 110.
PercentReached(bytes, next) == bytes * 100 >= next * total

\* a status line after every chunk
StatusDue_Always(bytes) == TRUE

\* line 127: downloaded % (256 * 1024) < chunk_size
StatusDue(bytes) == bytes % status_every < chunk_size

\* lines 114-128: one chunk of the response
ReadChunk ==
    /\ pc_dl = "loop"
    /\ body_left > 0
    /\ \E n \in ChunkLens :
        /\ body_left' = body_left - n
        /\ IF n = 0
           THEN /\ empty_chunks < MaxEmptyChunks
                /\ empty_chunks' = empty_chunks + 1
                /\ UNCHANGED <<downloaded, next_percent_log, progress_log, status_calls>>
           ELSE /\ downloaded' = downloaded + n
                /\ UNCHANGED empty_chunks
                /\ IF total # 0
                   THEN IF PercentReached(downloaded', next_percent_log)
                        THEN /\ progress_log' = Append(progress_log,
                                    [threshold |-> next_percent_log,
                                     bytes |-> downloaded', chunk |-> n])
                             /\ status_calls' = status_calls + 1
                             /\ next_percent_log' = NextThreshold(next_percent_log)
                        ELSE UNCHANGED <<next_percent_log, progress_log, status_calls>>
                   ELSE /\ status_calls' =
                            IF StatusDue(downloaded') THEN status_calls + 1
                            ELSE status_calls
                        /\ UNCHANGED <<next_percent_log, progress_log>>
    /\ UNCHANGED <<total, exact_chunks, pc_dl>>
    /\ UNCHANGED <<expVars, batchVars, lockVars, net_calls>>

\* lines 114, 129-131: the body is read to its end
EndOfBody ==
    /\ pc_dl = "loop"
    /\ body_left = 0
    /\ pc_dl' = "saved"
    /\ UNCHANGED <<total, body_left, exact_chunks, downloaded, next_percent_log,
                   progress_log, status_calls, empty_chunks>>
    /\ UNCHANGED <<expVars, batchVars, lockVars, net_calls>>

\* no download_file call is under way
DlIdle ==
    /\ total = 0 /\ body_left = 0 /\ exact_chunks = TRUE /\ downloaded = 0
    /\ next_percent_log = first_percent_log /\ progress_log = <<>>
    /\ status_calls = 0 /\ empty_chunks = 0 /\ pc_dl = "idle"

(***************************************************************************)
(* The batch worker (lines 1027-1055), download_file as the worker sees it *)
(* (lines 101-137) and the run log (lines 637-687).  log, reset_log and    *)
(* get_log_text each hold log_lock for their whole effect, so each is one  *)
(* step here; SpecLog below models them with the lock.                     *)
(***************************************************************************)
\* the threads start_download may have started; nothing stops a second click
\* on Download while a batch runs (the button of line 514 is never disabled)
Workers == {"w1", "w2"}

\* most items handed to workers in one run of the model
MaxItems == 2

\* The items of a batch: catalog entries with their url, given by its path
\* segments, each segment as stem and suffix.  Items are interchangeable, so a
\* batch of k items is the first k of these.
BatchCatalog ==
    <<[name |-> "A", url |-> <<[stem |-> "cdn", suffix |-> ""], [stem |-> "A", suffix |-> ".jar"]>>],
      [name |-> "B", url |-> <<[stem |-> "cdn", suffix |-> ""], [stem |-> "B", suffix |-> ""]>>],
      [name |-> "C", url |-> <<>>],
      [name |-> "D", url |-> <<[stem |-> "D", suffix |-> ".zip"]>>]>>

\* self.download_dir, chosen before the batch
download_dir == "plugins"

\* line 1036: Path(selected["url"]).name or "download.bin"
FileOf(item) ==
    IF item.url = <<>> THEN [stem |-> "download", suffix |-> ".bin"]
    ELSE item.url[Len(item.url)]
FileName(item) == FileOf(item).stem \o FileOf(item).suffix
\* line 1037: self.download_dir / filename
TargetPath(item) == download_dir \o "/" \o FileName(item)
\* line 105: destination.suffix or 'none'
Extension(item) == IF FileOf(item).suffix = "" THEN "none" ELSE FileOf(item).suffix

\* How a transfer can go, lines 107-128: the body is saved, with or without a
\* progress line on the way; raise_for_status raises before any chunk; a
\* write raises after a progress line.
TransferOutcomes ==
    {[progress |-> FALSE, exc |-> None],
     [progress |-> TRUE,  exc |-> None],
     [progress |-> FALSE, exc |-> "404 Client Error: Not Found"],
     [progress |-> TRUE,  exc |-> "No space left on device"]}

\* lines 666-668: "\n".join(lines) + ("\n" if lines else "")
RECURSIVE JoinLines(_)
JoinLines(lines) ==
    IF lines = <<>> THEN ""
    ELSE IF Len(lines) = 1 THEN lines[1]
    ELSE lines[1] \o "\n" \o JoinLines(Tail(lines))
\* the join alone, without the closing line break
get_log_text_NoFinalBreak(lines) == JoinLines(lines)
get_log_text(lines) == JoinLines(lines) \o (IF lines # <<>> THEN "\n" ELSE "")

\* line 671
BaseName(success) == IF success THEN "successlog" ELSE "logerror"
\* line 676
LogFileName(base, n) == base \o ToString(n) \o ".txt"

Pc(w) == wk[w].pc
\* the list walked from its end: reversed(items_to_download)
Item_Reversed(w) == wk[w].items[Len(wk[w].items) + 1 - wk[w].idx]
\* line 1035: the item the for loop stands on
Item(w) == wk[w].items[wk[w].idx]
Active(w) == Pc(w) \notin {"idle", "done"}
RECURSIVE ItemsOf(_)
ItemsOf(S) ==
    IF S = {} THEN 0
    ELSE LET x == CHOOSE x \in S : TRUE
         IN  Len(wk[x].items) + ItemsOf(S \ {x})

\* The sinks a worker hands to download_file (lines 1043-1045) and uses
\* itself: self.log, self.set_status, self.set_ready.  A call is recorded in
\* the thread's history of sink calls.
LogCall(text) == [sink |-> "log", text |-> text]
StatusCall(text) == [sink |-> "status", text |-> text]
ReadyCall(text) == [sink |-> "ready", text |-> text]
LogCalls(texts) == [i \in 1..Len(texts) |-> LogCall(texts[i])]
\* the messages among a history of sink calls that went to sink
TextsOf(calls, sink) ==
    LET kept == SelectSeq(calls, LAMBDA c : c.sink = sink)
    IN  [i \in 1..Len(kept) |-> kept[i].text]

\* line 1057: threading.Thread(target=worker).start(), on a list of k items.
\* The history field alone tells whether another batch ran during this one.
StartWorker(w) ==
    /\ Pc(w) = "idle"
    /\ \E k \in 1..(MaxItems - ItemsOf(Workers)) :
        /\ k <= Len(BatchCatalog)
        /\ wk' = [u \in Workers |->
                    IF u = w
                    THEN [wk[w] EXCEPT !.pc = "busy",
                                       !.items = SubSeq(BatchCatalog, 1, k),
                                       !.alone = \A v \in Workers \ {w} : ~Active(v)]
                    ELSE IF Active(u) THEN [wk[u] EXCEPT !.alone = FALSE]
                    ELSE wk[u]]
    /\ UNCHANGED <<log_lines, log_files, ready_var>>
    /\ UNCHANGED <<expVars, dlVars, lockVars, net_calls>>

\* line 1028: self.set_ready("Busy")
W_Busy(w) ==
    /\ Pc(w) = "busy"
    /\ ready_var' = "Busy"
    /\ wk' = [wk EXCEPT ![w] = [@ EXCEPT !.pc = "reset",
                                         !.calls = Append(@, ReadyCall("Busy"))]]
    /\ UNCHANGED <<log_lines, log_files>>
    /\ UNCHANGED <<expVars, dlVars, lockVars, net_calls>>

\* the worker without its self.reset_log()
W_Reset_Skipped(w) ==
    /\ Pc(w) = "reset"
    /\ wk' = [wk EXCEPT ![w] = [@ EXCEPT !.pc = "log_started",
                                         !.overall_success = TRUE]]
    /\ UNCHANGED <<log_lines, log_files, ready_var>>
    /\ UNCHANGED <<expVars, dlVars, lockVars, net_calls>>

\* lines 1029-1030 and 656-659: self.reset_log(); overall_success = True
W_Reset(w) ==
    /\ Pc(w) = "reset"
    /\ log_lines' = <<>>
    /\ wk' = [wk EXCEPT ![w] = [@ EXCEPT !.pc = "log_started",
                                         !.overall_success = TRUE]]
    /\ UNCHANGED <<log_files, ready_var>>
    /\ UNCHANGED <<expVars, dlVars, lockVars, net_calls>>

\* lines 1032-1033
W_LogStarted(w) ==
    /\ Pc(w) = "log_started"
    /\ LET lines == <<"--- Batch Download Started ---",
                      "Target Directory: " \o download_dir>>
       IN  /\ log_lines' = log_lines \o lines
           /\ wk' = [wk EXCEPT ![w] = [@ EXCEPT !.pc = "item",
                                                !.calls = @ \o LogCalls(lines)]]
    /\ UNCHANGED <<log_files, ready_var>>
    /\ UNCHANGED <<expVars, dlVars, lockVars, net_calls>>

\* the for loop of line 1035 never advanced
NextIndex_Stuck(idx) == idx

\* the index the for loop of line 1035 takes after item idx
NextIndex(idx) == idx + 1

\* lines 1035-1040 and 103-106: the next item of the list; download_file is
\* called and logs its three opening lines
W_Item(w) ==
    /\ Pc(w) = "item"
    /\ wk[w].idx <= Len(wk[w].items)
    /\ LET file  == FileName(Item(w))
           lines == <<"Starting download: " \o file,
                      "Target path: " \o TargetPath(Item(w)),
                      "Extension: " \o Extension(Item(w))>>
       IN  /\ log_lines' = log_lines \o lines
           /\ wk' = [wk EXCEPT ![w] = [@ EXCEPT
                    !.pc = "d_get",
                    !.calls = (Append(@, StatusCall("Starting download ("
                                  \o ToString(wk[w].idx) \o "/"
                                  \o ToString(Len(wk[w].items)) \o "): " \o file))
                               \o LogCalls(lines))
                              \o <<StatusCall("Retrieving: " \o file)>>,
                    !.events = Append(@, [ev |-> "begin", idx |-> wk[w].idx,
                                          name |-> Item(w).name, exc |-> None])]]
    /\ UNCHANGED <<log_files, ready_var>>
    /\ UNCHANGED <<expVars, dlVars, lockVars, net_calls>>

\* lines 107-128: the request and the chunk loop, up to the point where the
\* body is saved or an exception is caught (the loop itself: SpecProgress)
D_Transfer(w) ==
    /\ Pc(w) = "d_get"
    /\ \E o \in TransferOutcomes :
        LET lines == IF o.progress THEN <<"Downloading...">> ELSE <<>>
        IN  /\ log_lines' = log_lines \o lines
            /\ wk' = [wk EXCEPT ![w] = [@ EXCEPT
                    !.pc = IF o.exc = None THEN "d_saved" ELSE "d_failed",
                    !.exc = o.exc,
                    !.calls = @ \o (IF o.progress
                                    THEN <<LogCall("Downloading..."),
                                           StatusCall("Downloading...")>>
                                    ELSE <<>>)]]
    /\ net_calls' = net_calls \cup {NetCall("transfer", w)}
    /\ UNCHANGED <<log_files, ready_var>>
    /\ UNCHANGED <<expVars, dlVars, lockVars>>

\* lines 129-131, and the return to the loop of line 1035
D_Saved(w) ==
    /\ Pc(w) = "d_saved"
    /\ LET line == "Saved: " \o TargetPath(Item(w))
       IN  /\ log_lines' = Append(log_lines, line)
           /\ wk' = [wk EXCEPT ![w] = [@ EXCEPT
                    !.pc = "item",
                    !.calls = @ \o <<LogCall(line),
                                     StatusCall("Finished: " \o FileName(Item(w))),
                                     ReadyCall("Ready")>>,
                    !.events = Append(@, [ev |-> "ok", idx |-> wk[w].idx,
                                          name |-> Item(w).name, exc |-> None]),
                    !.idx = NextIndex(@)]]
    /\ ready_var' = "Ready"
    /\ UNCHANGED log_files
    /\ UNCHANGED <<expVars, dlVars, lockVars, net_calls>>

\* a failure logged without its reason
FailedLine_NoReason(e) == "Failed"

\* line 133: the line download_file logs for exception e
FailedLine(e) == "Failed: " \o e

\* lines 132-135: the exception is caught and reported to the three sinks
D_Failed(w) ==
    /\ Pc(w) = "d_failed"
    /\ log_lines' = Append(log_lines, FailedLine(wk[w].exc))
    /\ wk' = [wk EXCEPT ![w] = [@ EXCEPT
                !.pc = "d_raise",
                !.calls = @ \o <<LogCall(FailedLine(wk[w].exc)),
                                 StatusCall("Error: " \o wk[w].exc),
                                 ReadyCall("Ready")>>]]
    /\ ready_var' = "Ready"
    /\ UNCHANGED log_files
    /\ UNCHANGED <<expVars, dlVars, lockVars, net_calls>>

\* the except clause of lines 1047-1048 forgotten: the aggregate stays as it was
OnItemFailed_Ignored(r) == [r EXCEPT !.pc = "item", !.idx = NextIndex(@)]

\* the except clause of lines 1047-1048 leaving the loop
OnItemFailed_Abort(r) == [r EXCEPT !.overall_success = FALSE, !.pc = "ready"]

\* lines 1047-1048: the worker's except clause; the loop goes on
OnItemFailed(r) == [r EXCEPT !.overall_success = FALSE, !.pc = "item",
                             !.idx = NextIndex(@)]

\* line 137, and the worker's except clause
D_Raise(w) ==
    /\ Pc(w) = "d_raise"
    /\ wk' = [wk EXCEPT ![w] = OnItemFailed([@ EXCEPT
                !.events = Append(@, [ev |-> "fail", idx |-> wk[w].idx,
                                      name |-> Item(w).name, exc |-> wk[w].exc])])]
    /\ UNCHANGED <<log_lines, log_files, ready_var>>
    /\ UNCHANGED <<expVars, dlVars, lockVars, net_calls>>

\* lines 1035, 1050-1051: the list is exhausted
W_Ready(w) ==
    /\ Pc(w) \in {"item", "ready"}
    /\ Pc(w) = "item" => wk[w].idx > Len(wk[w].items)
    /\ ready_var' = "Ready"
    /\ wk' = [wk EXCEPT ![w] = [@ EXCEPT
                !.pc = "log_finished",
                !.calls = @ \o <<ReadyCall("Ready"),
                                 StatusCall("Finished all downloads")>>]]
    /\ UNCHANGED <<log_lines, log_files>>
    /\ UNCHANGED <<expVars, dlVars, lockVars, net_calls>>

\* lines 1053-1054 and 670-674: the closing line; save_log begins
W_LogFinished(w) ==
    /\ Pc(w) = "log_finished"
    /\ log_lines' = Append(log_lines, "--- Batch Download Finished ---")
    /\ wk' = [wk EXCEPT ![w] = [@ EXCEPT
                !.pc = "s_scan",
                !.calls = Append(@, LogCall("--- Batch Download Finished ---")),
                !.base = BaseName(wk[w].overall_success),
                !.n = 1]]
    /\ UNCHANGED <<log_files, ready_var>>
    /\ UNCHANGED <<expVars, dlVars, lockVars, net_calls>>

\* lines 675-679: one candidate.exists() of the scan
S_Scan(w) ==
    /\ Pc(w) = "s_scan"
    /\ IF LogFileName(wk[w].base, wk[w].n) \in DOMAIN log_files
       THEN wk' = [wk EXCEPT ![w].n = @ + 1]
       ELSE wk' = [wk EXCEPT ![w].pc = "s_text"]
    /\ UNCHANGED <<log_lines, log_files, ready_var>>
    /\ UNCHANGED <<expVars, dlVars, lockVars, net_calls>>

\* line 680
S_GetText(w) ==
    /\ Pc(w) = "s_text"
    /\ wk' = [wk EXCEPT ![w] = [@ EXCEPT !.pc = "s_write",
                                         !.content = get_log_text(log_lines)]]
    /\ UNCHANGED <<log_lines, log_files, ready_var>>
    /\ UNCHANGED <<expVars, dlVars, lockVars, net_calls>>

\* a write that leaves no file behind
WriteText_Lost(files, f, content) == files

\* the directory after write_text(content) on file f
WriteText(files, f, content) ==
    [g \in DOMAIN files \cup {f} |-> IF g = f THEN content ELSE files[g]]

\* lines 681-683: candidate.write_text(content) succeeds
S_Write(w) ==
    /\ Pc(w) = "s_write"
    /\ LET f == LogFileName(wk[w].base, wk[w].n)
       IN  /\ log_files' = WriteText(log_files, f, wk[w].content)
           /\ wk' = [wk EXCEPT ![w] = [@ EXCEPT !.pc = "log_saved", !.log_name = f]]
    /\ UNCHANGED <<log_lines, ready_var>>
    /\ UNCHANGED <<expVars, dlVars, lockVars, net_calls>>

\* the exception of write_text swallowed without a word in the log
S_WriteFails_Silent(w) ==
    /\ Pc(w) = "s_write"
    /\ wk' = [wk EXCEPT ![w] = [@ EXCEPT !.pc = "log_saved",
                    !.log_name = LogFileName(wk[w].base, wk[w].n)]]
    /\ UNCHANGED <<log_lines, log_files, ready_var>>
    /\ UNCHANGED <<expVars, dlVars, lockVars, net_calls>>

\* lines 681-687: candidate.write_text(content) raises and leaves no file;
\* the failure is logged and the name tried is returned
S_WriteFails(w) ==
    /\ Pc(w) = "s_write"
    /\ LET f    == LogFileName(wk[w].base, wk[w].n)
           line == "Failed to save log: Permission denied"
       IN  /\ log_lines' = Append(log_lines, line)
           /\ wk' = [wk EXCEPT ![w] = [@ EXCEPT !.pc = "log_saved", !.log_name = f,
                                                !.calls = Append(@, LogCall(line))]]
    /\ UNCHANGED <<log_files, ready_var>>
    /\ UNCHANGED <<expVars, dlVars, lockVars, net_calls>>

\* line 1055
W_LogSaved(w) ==
    /\ Pc(w) = "log_saved"
    /\ LET line == "Log saved to logs/" \o wk[w].log_name
       IN  /\ log_lines' = Append(log_lines, line)
           /\ wk' = [wk EXCEPT ![w] = [@ EXCEPT !.pc = "done",
                                                !.calls = Append(@, LogCall(line))]]
    /\ UNCHANGED <<log_files, ready_var>>
    /\ UNCHANGED <<expVars, dlVars, lockVars, net_calls>>

\* a thread not started yet
IdleWorker ==
    [pc |-> "idle", items |-> <<>>, idx |-> 1, overall_success |-> TRUE,
     exc |-> None, base |-> None, n |-> 0, content |-> "",
     log_name |-> None, events |-> <<>>, calls |-> <<>>, alone |-> TRUE]

\* lines 416-419, with an empty logs directory
BatchIdle ==
    /\ log_lines = <<>>
    /\ log_files = <<>>
    /\ ready_var = "Ready"
    /\ wk = [w \in Workers |-> IdleWorker]

(***************************************************************************)
(* log, reset_log and get_log_text with their lock, lines 637-668, called  *)
(* by the worker threads in any order.                                     *)
(***************************************************************************)
\* most calls one thread makes
MaxCalls == 3

\* the messages logged
Messages == {"Saved: plugins/A.jar", "Failed: 404 Client Error: Not Found"}

\* a thread that is in none of the three methods
IdleThread == [pc |-> "idle", op |-> None, message |-> "", result |-> "", ncalls |-> 0]

\* a with statement that takes no lock
LockFree_Always == TRUE

\* lines 639, 657, 667: what "with self.log_lock" waits for
LockFree == log_lock = None

\* a thread calls self.log(message), self.reset_log() or self.get_log_text()
T_Call(t) ==
    /\ th[t].pc = "idle"
    /\ th[t].ncalls < MaxCalls
    /\ \/ \E m \in Messages :
            th' = [th EXCEPT ![t] = [@ EXCEPT !.pc = "acquire", !.op = "log",
                                              !.message = m, !.ncalls = @ + 1]]
       \/ th' = [th EXCEPT ![t] = [@ EXCEPT !.pc = "acquire", !.op = "reset_log",
                                            !.ncalls = @ + 1]]
       \/ th' = [th EXCEPT ![t] = [@ EXCEPT !.pc = "acquire", !.op = "get_log_text",
                                            !.ncalls = @ + 1]]
    /\ UNCHANGED <<log_lock, appended>>
    /\ UNCHANGED <<expVars, dlVars, batchVars, net_calls>>

\* lines 639, 657, 667: the lock is taken
T_Acquire(t) ==
    /\ th[t].pc = "acquire"
    /\ LockFree
    /\ log_lock' = t
    /\ th' = [th EXCEPT ![t].pc = "locked"]
    /\ UNCHANGED appended
    /\ UNCHANGED <<expVars, dlVars, batchVars, net_calls>>

\* line 640: self.log_lines.append(message)
T_Append(t) ==
    /\ th[t].pc = "locked" /\ th[t].op = "log"
    /\ log_lines' = Append(log_lines, th[t].message)
    /\ appended' = Append(appended, th[t].message)
    /\ th' = [th EXCEPT ![t].pc = "release"]
    /\ UNCHANGED <<log_lock, log_files, ready_var, wk>>
    /\ UNCHANGED <<expVars, dlVars, net_calls>>

\* line 658: self.log_lines = []
T_Clear(t) ==
    /\ th[t].pc = "locked" /\ th[t].op = "reset_log"
    /\ log_lines' = <<>>
    /\ appended' = <<>>
    /\ th' = [th EXCEPT ![t].pc = "release"]
    /\ UNCHANGED <<log_lock, log_files, ready_var, wk>>
    /\ UNCHANGED <<expVars, dlVars, net_calls>>

\* line 668: the text is built
T_Join(t) ==
    /\ th[t].pc = "locked" /\ th[t].op = "get_log_text"
    /\ th' = [th EXCEPT ![t] = [@ EXCEPT !.pc = "release",
                                         !.result = get_log_text(log_lines)]]
    /\ UNCHANGED <<log_lock, appended>>
    /\ UNCHANGED <<expVars, dlVars, batchVars, net_calls>>

\* the with block is left and the method returns
T_Release(t) ==
    /\ th[t].pc = "release"
    /\ log_lock' = None
    /\ th' = [th EXCEPT ![t].pc = "idle"]
    /\ UNCHANGED appended
    /\ UNCHANGED <<expVars, dlVars, batchVars, net_calls>>

\* no thread has gone to the network yet
NetIdle == net_calls = {}

\* lines 418-419
LockIdle ==
    /\ log_lock = None
    /\ th = [t \in Workers |-> IdleThread]
    /\ appended = <<>>

InitExpand ==
    /\ download_items \in Catalogs
    /\ selected_items \in SUBSET Names
    /\ deps_map \in DepsMaps
    /\ pc_ui = "idle"
    /\ alert = None
    /\ items_to_download = <<>>
    /\ names_only = <<>>
    /\ dlg_action = None
    /\ extra_items = <<>>
    /\ to_process = <<>>
    /\ processed = {}
    /\ iterations = 0
    /\ spawned = <<>>
    /\ DlIdle
    /\ BatchIdle
    /\ LockIdle
    /\ NetIdle

NextExpand ==
    \/ StartDownload
    \/ Confirm
    \/ ExpandStep
    \/ ExpandDone
    \/ SpawnWorker

SpecExpand == InitExpand /\ [][NextExpand]_vars

\* start_download runs its loop to the end once the dialog has closed; the
\* dialog itself waits for the user, so Confirm gets no fairness.
FairSpecExpand ==
    SpecExpand /\ WF_vars(ExpandStep) /\ WF_vars(ExpandDone) /\ WF_vars(SpawnWorker)

(***************************************************************************)
(* Properties of the dependency expansion.                                 *)
(***************************************************************************)
CatalogNames == Range(NamesOf(download_items))
UniqueCatalog == NoDuplicates(NamesOf(download_items))
DepsOf(name) == IF name \in DOMAIN deps_map THEN deps_map[name] ELSE <<>>
FirstIndex(s, x) == CHOOSE i \in 1..Len(s) : s[i] = x /\ \A j \in 1..(i-1) : s[j] # x

\* the expansion's result: the list with the extras found so far
ResultSoFar ==
    IF pc_ui = "expand" THEN items_to_download \o extra_items ELSE items_to_download
\* the expansion ran to its end
Expanded == dlg_action = "dependencies" /\ pc_ui \in {"spawn", "returned"}

\* C1: with unique catalog names, the expansion's result never holds a name
\* twice and holds every selected name that is in the catalog.
C1_NoDuplicateSuperset ==
    (UniqueCatalog /\ dlg_action = "dependencies") =>
        /\ NoDuplicates(NamesOf(ResultSoFar))
        /\ (selected_items \cap CatalogNames) \subseteq Range(NamesOf(ResultSoFar))

\* a finished expansion in which one dependency is listed by two result items
C1_Witness ==
    /\ Expanded /\ UniqueCatalog /\ extra_items # <<>>
    /\ \E i, j \in 1..Len(items_to_download) :
        /\ i # j
        /\ \E d \in Range(NamesOf(extra_items)) :
            /\ d \in Range(DepsOf(items_to_download[i].name))
            /\ d \in Range(DepsOf(items_to_download[j].name))

\* the map is exactly the cycle a -> b, b -> a, both in the catalog, a requested
CycleCase(a, b) ==
    /\ a # b /\ UniqueCatalog /\ {a, b} \subseteq CatalogNames
    /\ selected_items \cap CatalogNames = {a}
    /\ DOMAIN deps_map = {a, b}
    /\ deps_map[a] = <<b>> /\ deps_map[b] = <<a>>

\* C2: the expansion loop ends for every dependency map: it never runs more
\* iterations than the catalog has items, and once begun it reaches the point
\* where the worker is started; on the cycle a -> b, b -> a with a requested
\* it ends with an empty queue and returns exactly a, b.
C2_ExpansionTerminates ==
    /\ [](iterations <= Len(download_items))
    /\ [](\A a, b \in Names : (CycleCase(a, b) /\ Expanded) =>
            (to_process = <<>> /\ NamesOf(items_to_download) = <<a, b>>))
    /\ (pc_ui = "expand" ~> pc_ui = "spawn")

\* the expansion of the cycle has ended, after one iteration for each name
C2_Witness ==
    /\ Expanded /\ iterations = 2
    /\ \E a, b \in Names : CycleCase(a, b)

\* C3: a dependency name with no catalog entry never enters the result, and
\* the names listed after it are still expanded: in the end every catalog
\* name that a result item lists is in the result.
C3_AbsentNameSkipped ==
    /\ dlg_action = "dependencies" =>
        /\ Range(NamesOf(ResultSoFar)) \subseteq CatalogNames
        /\ NoItem \notin Range(ResultSoFar)
    /\ Expanded =>
        \A i \in 1..Len(items_to_download) :
            \A d \in Range(DepsOf(items_to_download[i].name)) :
                d \in CatalogNames => d \in Range(NamesOf(items_to_download))

\* a finished expansion that met an absent name and then added a later one
C3_Witness ==
    /\ Expanded
    /\ \E i \in 1..Len(items_to_download) :
        LET deps == DepsOf(items_to_download[i].name)
        IN  \E p, q \in 1..Len(deps) :
            /\ p < q
            /\ deps[p] \notin CatalogNames
            /\ deps[q] \in Range(NamesOf(extra_items))

\* the first result item that lists the name at result position p, and the
\* name's first place in that item's dependency list
Lists(i, p) ==
    items_to_download[p].name \in Range(DepsOf(items_to_download[i].name))
Discoverer(p) ==
    CHOOSE i \in 1..Len(items_to_download) :
        Lists(i, p) /\ \A j \in 1..(i-1) : ~Lists(j, p)
PlaceInList(p) ==
    FirstIndex(DepsOf(items_to_download[Discoverer(p)].name), items_to_download[p].name)

\* C4: the result starts with the requested catalog items in the order the
\* confirmation dialog showed them, and the dependencies follow in breadth-first
\* first-discovery order: ordered by the result position of the first item
\* that lists them, then by their place in that item's list.
C4_RequestedThenBreadthFirst ==
    Expanded =>
        LET k == Len(names_only)
            n == Len(items_to_download)
        IN  /\ k <= n
            /\ SubSeq(items_to_download, 1, k) = SelectItems(download_items, selected_items)
            /\ SubSeq(NamesOf(items_to_download), 1, k) = names_only
            /\ SubSeq(items_to_download, k + 1, n) = extra_items
            /\ \A p \in (k+1)..n :
                /\ \E i \in 1..(p-1) : Lists(i, p)
                /\ \A q \in (p+1)..n :
                    \/ Discoverer(p) < Discoverer(q)
                    \/ /\ Discoverer(p) = Discoverer(q)
                       /\ PlaceInList(p) < PlaceInList(q)

\* two requested items, each bringing in one dependency of its own
C4_Witness ==
    /\ Expanded /\ Len(names_only) = 2 /\ Len(extra_items) = 2
    /\ Discoverer(3) = 1 /\ Discoverer(4) = 2

\* the four alerts of lines 963, 967, 971 and 979
PreconditionAlerts ==
    {"Please enable wifi", "Please choose a plugin folder.",
     "Please select at least one download.", "No matching downloads found."}

\* no worker was started, and the run log and the logs directory are as they
\* were before start_download
NoBatch ==
    /\ spawned = <<>>
    /\ \A w \in Workers : wk[w] = IdleWorker
    /\ log_lines = <<>>
    /\ log_files = <<>>

\* C11: when start_download has returned on one of its four precondition
\* alerts, and whenever nothing selected is in the catalog, no worker was
\* started, no transfer was attempted, the run log was not reset and no log
\* file was written.
C11_FailedPreconditionStartsNothing ==
    /\ (pc_ui = "returned" /\ alert \in PreconditionAlerts) => NoBatch
    /\ (selected_items \cap CatalogNames = {}) =>
            (NoBatch /\ pc_ui \in {"idle", "returned"})

\* a selection that names nothing of a non-empty catalog was turned down
C11_Witness ==
    /\ pc_ui = "returned" /\ alert = "No matching downloads found."
    /\ selected_items # {} /\ download_items # <<>>
    /\ NoBatch

\* the confirmation dialog was closed by Cancel and its "Are you sure?"
Cancelled ==
    pc_ui = "returned" /\ dlg_action = None /\ alert \notin PreconditionAlerts

\* C16: unless the dialog was closed by "dependencies" the expansion does not
\* run; after "download" the list handed to the worker is exactly the catalog
\* items the dialog showed; after Cancel no worker is started and the run
\* log is as it was.
C16_ExpansionOnlyOnRequest ==
    /\ dlg_action # "dependencies" =>
            (extra_items = <<>> /\ iterations = 0 /\ to_process = <<>>)
    /\ (dlg_action = "download" /\ pc_ui \in {"spawn", "returned"}) =>
            /\ items_to_download = SelectSeq(download_items,
                                        LAMBDA item : item.name \in selected_items)
            /\ NamesOf(items_to_download) = names_only
    /\ (dlg_action = "download" /\ pc_ui = "returned") =>
            spawned = <<items_to_download>>
    /\ Cancelled => NoBatch

\* "download" started a batch on a selection that has a dependency in the
\* catalog outside the selection
C16_Witness ==
    /\ dlg_action = "download" /\ pc_ui = "returned" /\ spawned # <<>>
    /\ \E i \in 1..Len(items_to_download) :
        \E d \in Range(DepsOf(items_to_download[i].name)) :
            d \in CatalogNames \ selected_items

\* C17 as stated: once the expansion has ended, every dependency name listed
\* by an item of the result is in the visited set, found in the catalog or not.
C17_AbsentNameMarkedVisited ==
    Expanded =>
        \A i \in 1..Len(items_to_download) :
            Range(DepsOf(items_to_download[i].name)) \subseteq processed

\* C17, amended: the visited set holds exactly the names of the result so
\* far, so a name without a catalog entry is never in it and is looked up
\* again each time it is listed; what is queued is visited; and each name of
\* the result is dequeued once, so the loop runs once per result item.
C17_VisitedIsExactlyTheResult ==
    /\ dlg_action = "dependencies" =>
        /\ processed = Range(NamesOf(ResultSoFar))
        /\ processed \subseteq CatalogNames
        /\ Range(to_process) \subseteq processed
    /\ Expanded => iterations = Len(items_to_download)

\* an expansion has ended in which one item lists a name without a catalog
\* entry and, after it, a name that was added
C17_Witness ==
    /\ Expanded /\ extra_items # <<>>
    /\ \E i \in 1..Len(items_to_download) :
        LET deps == DepsOf(items_to_download[i].name)
        IN  /\ Len(deps) = 2
            /\ deps[1] \notin CatalogNames /\ deps[1] \notin processed
            /\ deps[2] \in Range(NamesOf(extra_items)) /\ deps[2] \in processed

\* C21: no blocking network call is made by the UI thread.
C21_NoNetworkOnUiThread ==
    \A c \in net_calls : c.on # UiThread

\* the catalog names listed as a dependency by a name of S
CatalogDepsOf(S) ==
    {d \in CatalogNames : \E n \in S : d \in Range(DepsOf(n))}
\* the names reached from S in at most k steps, every one a catalog name
RECURSIVE ReachableIn(_, _)
ReachableIn(S, k) ==
    IF k = 0 THEN S ELSE ReachableIn(S \cup CatalogDepsOf(S), k - 1)
\* the names of the requested catalog items
Requested == selected_items \cap CatalogNames

\* C23: once the expansion has ended, the names of the extra items are
\* exactly the catalog names outside the request that are reachable from a
\* requested catalog item along dependency edges through catalog names only;
\* what only a name without a catalog entry lists is not added.
C23_ExtrasAreTheReachableCatalogNames ==
    Expanded =>
        Range(NamesOf(extra_items)) =
            ReachableIn(Requested, Len(download_items)) \ Requested

\* an expansion has ended that met a name without a catalog entry whose own
\* dependency is in the catalog, and left that dependency out
C23_Witness ==
    /\ Expanded
    /\ \E x \in Names \ CatalogNames, d \in CatalogNames \ Requested :
        /\ \E n \in Requested : x \in Range(DepsOf(n))
        /\ d \in Range(DepsOf(x))
        /\ d \notin Range(NamesOf(items_to_download))

(***************************************************************************)
(* download_file's chunk loop on its own.                                  *)
(***************************************************************************)
ExpIdle ==
    /\ download_items = <<>> /\ selected_items = {} /\ deps_map = <<>>
    /\ pc_ui = "idle" /\ alert = None /\ items_to_download = <<>>
    /\ names_only = <<>> /\ dlg_action = None /\ extra_items = <<>>
    /\ to_process = <<>> /\ processed = {} /\ iterations = 0 /\ spawned = <<>>

\* lines 107-112: the response has arrived
InitProgress ==
    /\ ExpIdle
    /\ \E r \in Responses :
        /\ total = r.total /\ body_left = r.body /\ exact_chunks = r.exact
    /\ downloaded = 0
    /\ next_percent_log = first_percent_log
    /\ progress_log = <<>>
    /\ status_calls = 0
    /\ empty_chunks = 0
    /\ pc_dl = "loop"
    /\ BatchIdle
    /\ LockIdle
    /\ NetIdle

NextProgress == ReadChunk \/ EndOfBody

SpecProgress == InitProgress /\ [][NextProgress]_vars

\* C8: with a declared length of 1,000,000 bytes read in full 8192-byte chunks,
\* the i-th progress line is the one of threshold 5*i, logged by the chunk
\* that first reaches that percentage; so thresholds rise, none has two
\* lines, and there are at most 20 lines.
C8_ProgressEveryFivePercent ==
    (total = 1000000 /\ exact_chunks) =>
        /\ Len(progress_log) <= 20
        /\ \A i \in 1..Len(progress_log) :
            /\ progress_log[i].threshold = 5 * i
            /\ progress_log[i].bytes * 100 >= 5 * i * total
            /\ (progress_log[i].bytes - progress_log[i].chunk) * 100 < 5 * i * total

\* the 1,000,000 bytes are saved and the line of the 100% threshold was logged
C8_Witness ==
    /\ total = 1000000 /\ exact_chunks /\ pc_dl = "saved"
    /\ downloaded = 1000000
    /\ Len(progress_log) = 20 /\ progress_log[20].threshold = 100

\* the 5% boundaries the percentage has reached after bytes of the body
BoundariesReached(bytes) == (bytes * 100) \div (percent_step * total)

\* C18: with a declared length, every progress line was logged by a chunk
\* that took the percentage across a 5% boundary not reached before; the
\* thresholds of the lines rise, and there are at most 20 lines.
C18_LineOnlyOnNewBoundary ==
    total # 0 =>
        /\ Len(progress_log) <= 20
        /\ \A i \in 1..Len(progress_log) :
            /\ BoundariesReached(progress_log[i].bytes) >
                    BoundariesReached(progress_log[i].bytes - progress_log[i].chunk)
            /\ \A j \in 1..(i-1) :
                    progress_log[j].threshold < progress_log[i].threshold

\* C19: with no declared length (or a declared 0) no chunk adds a progress
\* line to the log, and a chunk calls the status sink exactly when the bytes
\* so far, modulo 256 KiB, are below the 8 KiB chunk size; a zero-length
\* chunk leaves the byte counter, the threshold, the log and the number of
\* status calls as they were, with or without a declared length.
C19_StatusOnlyWhenLengthUnknown ==
    [][/\ total = 0 =>
            /\ progress_log' = progress_log /\ progress_log = <<>>
            /\ status_calls' =
                    IF downloaded' # downloaded /\ downloaded' % 262144 < 8192
                    THEN status_calls + 1 ELSE status_calls
       /\ empty_chunks' # empty_chunks =>
            /\ downloaded' = downloaded /\ status_calls' = status_calls
            /\ progress_log' = progress_log
            /\ next_percent_log' = next_percent_log]_vars

\* 600,000 bytes of unknown length are saved: the status sink was called at
\* 262,144 and at 524,288 bytes
C19_Witness ==
    /\ total = 0 /\ pc_dl = "saved" /\ downloaded = 600000
    /\ status_calls = 2 /\ progress_log = <<>>

(***************************************************************************)
(* The batch workers on their own.                                         *)
(***************************************************************************)
InitBatch == ExpIdle /\ DlIdle /\ BatchIdle /\ LockIdle /\ NetIdle

WorkerStep(w) ==
    \/ StartWorker(w)
    \/ W_Busy(w)
    \/ W_Reset(w)
    \/ W_LogStarted(w)
    \/ W_Item(w)
    \/ D_Transfer(w)
    \/ D_Saved(w)
    \/ D_Failed(w)
    \/ D_Raise(w)
    \/ W_Ready(w)
    \/ W_LogFinished(w)
    \/ S_Scan(w)
    \/ S_GetText(w)
    \/ S_Write(w)
    \/ S_WriteFails(w)
    \/ W_LogSaved(w)

NextBatch == \E w \in Workers : WorkerStep(w)

SpecBatch == InitBatch /\ [][NextBatch]_vars

\* the steps of a started worker thread
WorkerRuns(w) ==
    \/ W_Busy(w) \/ W_Reset(w) \/ W_LogStarted(w) \/ W_Item(w)
    \/ D_Transfer(w) \/ D_Saved(w) \/ D_Failed(w) \/ D_Raise(w)
    \/ W_Ready(w) \/ W_LogFinished(w)
    \/ S_Scan(w) \/ S_GetText(w) \/ S_Write(w) \/ S_WriteFails(w)
    \/ W_LogSaved(w)

\* One batch from its start to its end: Download is clicked once.  The
\* started thread keeps being scheduled, and requests.get with timeout=20
\* (line 107) returns or raises.
TheWorker == CHOOSE w \in Workers : TRUE

NextOneBatch == WorkerStep(TheWorker)

SpecOneBatch == InitBatch /\ [][NextOneBatch]_vars

FairSpecOneBatch == SpecOneBatch /\ WF_vars(WorkerRuns(TheWorker))

(***************************************************************************)
(* Properties of the batch.                                                *)
(***************************************************************************)
\* the worker has left the for loop of line 1035
LoopOver(w) == Pc(w) \in {"ready", "log_finished", "s_scan", "s_text", "s_write",
                          "log_saved", "done"}
\* save_log has been entered
InSaveLog(w) == Pc(w) \in {"s_scan", "s_text", "s_write", "log_saved", "done"}
EventsOf(w, kinds, i) ==
    {p \in 1..Len(wk[w].events) :
        wk[w].events[p].ev \in kinds /\ wk[w].events[p].idx = i}
NoItemFailed(w) == \A p \in 1..Len(wk[w].events) : wk[w].events[p].ev # "fail"

\* C5: every failed transfer has logged a line with its reason, and no
\* failure ends the batch: no item is attempted twice, and once the loop is
\* over every item of the list has been attempted exactly once.
C5_FailureLoggedBatchGoesOn ==
    \A w \in Workers :
        /\ \A p \in 1..Len(wk[w].events) :
            wk[w].events[p].ev = "fail" =>
                LogCall("Failed: " \o wk[w].events[p].exc) \in Range(wk[w].calls)
        /\ Pc(w) = "d_raise" =>
                wk[w].calls[Len(wk[w].calls) - 2] = LogCall("Failed: " \o wk[w].exc)
        /\ \A i \in 1..Len(wk[w].items) :
            /\ Cardinality(EventsOf(w, {"begin"}, i)) <= 1
            /\ LoopOver(w) =>
                /\ Cardinality(EventsOf(w, {"begin"}, i)) = 1
                /\ Cardinality(EventsOf(w, {"ok", "fail"}, i)) = 1

\* a batch whose first item failed with HTTP 404 and whose second item was
\* transferred all the same
C5_Witness ==
    \E w \in Workers :
        /\ Pc(w) = "done" /\ Len(wk[w].items) = 2
        /\ wk[w].events[2].ev = "fail"
        /\ wk[w].events[2].exc = "404 Client Error: Not Found"
        /\ wk[w].events[4].ev = "ok"

\* C6: from the end of the loop on, overall_success is TRUE exactly when no
\* transfer of the batch raised, and save_log files the log under "logerror"
\* when one did and under "successlog" otherwise.
C6_AggregateAndBaseName ==
    \A w \in Workers :
        /\ LoopOver(w) => (wk[w].overall_success <=> NoItemFailed(w))
        /\ InSaveLog(w) =>
            wk[w].base = (IF NoItemFailed(w) THEN "successlog" ELSE "logerror")
        /\ Pc(w) \in {"log_saved", "done"} =>
            wk[w].log_name = (IF NoItemFailed(w) THEN "successlog" ELSE "logerror")
                                \o ToString(wk[w].n) \o ".txt"

\* a batch in which a failure was followed by a success, filed as logerror1.txt
C6_Witness ==
    \E w \in Workers :
        /\ Pc(w) = "done" /\ Len(wk[w].items) = 2
        /\ wk[w].events[2].ev = "fail" /\ wk[w].events[4].ev = "ok"
        /\ ~wk[w].overall_success
        /\ wk[w].log_name = "logerror1.txt"
        /\ "logerror1.txt" \in DOMAIN log_files

\* C7: no step changes or removes a log file that exists: save_log writes
\* only to a name that no file has.
C7_NeverOverwritesLogFile ==
    [][\A f \in DOMAIN log_files :
          f \in DOMAIN log_files' /\ log_files'[f] = log_files[f]]_vars

\* C10: the transfers of a batch happen one at a time in list order: the
\* batch's history is begin 1, end 1, begin 2, end 2, ... on the items of the
\* list in their order, so transfer i+1 begins only after transfer i ended.
C10_TransfersInListOrder ==
    \A w \in Workers :
        \A p \in 1..Len(wk[w].events) :
            LET e == wk[w].events[p]
            IN  /\ e.idx = (p + 1) \div 2
                /\ e.idx <= Len(wk[w].items)
                /\ e.name = wk[w].items[e.idx].name
                /\ (p % 2 = 1) <=> (e.ev = "begin")
                /\ (p % 2 = 0) <=> (e.ev \in {"ok", "fail"})

\* the second transfer of a batch is under way, after the first one failed
C10_Witness ==
    \E w \in Workers :
        /\ Len(wk[w].items) = 2 /\ Pc(w) = "d_get" /\ wk[w].idx = 2
        /\ Len(wk[w].events) = 3 /\ wk[w].events[2].ev = "fail"

(***************************************************************************)
(* The run log under its lock.                                             *)
(***************************************************************************)
InitLog == ExpIdle /\ DlIdle /\ BatchIdle /\ LockIdle /\ NetIdle

ThreadStep(t) ==
    \/ T_Call(t)
    \/ T_Acquire(t)
    \/ T_Append(t)
    \/ T_Clear(t)
    \/ T_Join(t)
    \/ T_Release(t)

NextLog == \E t \in Workers : ThreadStep(t)

SpecLog == InitLog /\ [][NextLog]_vars

\* whole lines, each ended by a line break
RECURSIVE LinesText(_)
LinesText(lines) ==
    IF lines = <<>> THEN "" ELSE lines[1] \o "\n" \o LinesText(Tail(lines))

\* C9: the text get_log_text returns is made of whole lines: it is the text,
\* each line ended by a line break, of a prefix of the lines appended since
\* the last reset, in the order of their appends, whatever other threads are
\* doing in log.
C9_SnapshotIsWholeLines ==
    \A t \in Workers :
        (th[t].op = "get_log_text" /\ th[t].pc = "release") =>
            \E k \in 0..Len(appended) :
                th[t].result = LinesText(SubSeq(appended, 1, k))

\* get_log_text returns two lines while another thread is inside log, waiting
\* for the lock
C9_Witness ==
    \E t, u \in Workers :
        /\ th[t].op = "get_log_text" /\ th[t].pc = "release"
        /\ Len(appended) = 2 /\ th[t].result # ""
        /\ th[u].op = "log" /\ th[u].pc = "acquire"

\* the worker's write of its log file failed
WriteFailed(w) ==
    LogCall("Failed to save log: Permission denied") \in Range(wk[w].calls)
\* the last message a finished worker sent to sink
LastText(w, sink) ==
    LET texts == TextsOf(wk[w].calls, sink) IN texts[Len(texts)]

\* C12 as stated: a finished batch has left a persisted log file of the name
\* it reports.
C12_EndsWithPersistedLog ==
    \A w \in Workers : Pc(w) = "done" => wk[w].log_name \in DOMAIN log_files

\* C12, amended: every started batch reaches its end; there its last status
\* is "Finished all downloads", its last log line names the log file
\* {base}{n}.txt, and that file exists unless writing it failed.
C12_BatchEndsNamedLog ==
    /\ \A w \in Workers : Active(w) ~> Pc(w) = "done"
    /\ [](\A w \in Workers : Pc(w) = "done" =>
            /\ LastText(w, "status") = "Finished all downloads"
            /\ wk[w].log_name = LogFileName(wk[w].base, wk[w].n)
            /\ LastText(w, "log") = "Log saved to logs/" \o wk[w].log_name
            /\ ~WriteFailed(w) => wk[w].log_name \in DOMAIN log_files)

\* a batch whose two items both failed has ended and its log file is written
C12_Witness ==
    \E w \in Workers :
        /\ Pc(w) = "done" /\ Len(wk[w].items) = 2
        /\ Cardinality(EventsOf(w, {"fail"}, 1)) = 1
        /\ Cardinality(EventsOf(w, {"fail"}, 2)) = 1
        /\ ~WriteFailed(w) /\ wk[w].log_name = "logerror1.txt"
        /\ "logerror1.txt" \in DOMAIN log_files

\* the last two lines the worker logged
LastTwoLogged(w) ==
    LET texts == TextsOf(wk[w].calls, "log")
    IN  SubSeq(texts, Len(texts) - 1, Len(texts))

\* C13: save_log always returns to the worker with the name {base}{n}.txt it
\* tried; when no file of that name was written, the failure line is in the
\* run log; and the worker then still logs its final line, which names that
\* file.
C13_WriteFailureIsLoggedNotRaised ==
    /\ [](\A w \in Workers : Pc(w) \in {"log_saved", "done"} =>
            /\ wk[w].log_name = LogFileName(wk[w].base, wk[w].n)
            /\ wk[w].log_name \notin DOMAIN log_files => WriteFailed(w)
            /\ (WriteFailed(w) /\ Pc(w) = "done") =>
                    LastTwoLogged(w) = <<"Failed to save log: Permission denied",
                                         "Log saved to logs/" \o wk[w].log_name>>)
    /\ \A w \in Workers : Pc(w) = "s_write" ~> Pc(w) = "done"

\* a batch has ended after a failed write of its log file
C13_Witness ==
    \E w \in Workers :
        /\ Pc(w) = "done" /\ WriteFailed(w)
        /\ wk[w].log_name = "successlog1.txt" /\ log_files = <<>>

\* C14: at most one batch worker is active at any time.
C14_AtMostOneWorkerActive ==
    Cardinality({w \in Workers : Active(w)}) <= 1

\* items of the worker's list are still to be attempted
ItemsPending(w) ==
    /\ Pc(w) \in {"log_started", "item", "d_get", "d_saved", "d_failed", "d_raise"}
    /\ wk[w].idx <= Len(wk[w].items)
    /\ Pc(w) \in {"d_saved", "d_failed", "d_raise"} => wk[w].idx < Len(wk[w].items)

\* C15: in a batch running alone, once the worker has signalled "Busy" the
\* readiness signal is not "Ready" while items of its list are still pending.
C15_ReadyBracketsBatch ==
    \A w \in Workers :
        ((\A u \in Workers \ {w} : Pc(u) = "idle") /\ ItemsPending(w)) =>
            ready_var # "Ready"

\* the last three sink calls of the worker
LastThreeCalls(w) ==
    SubSeq(wk[w].calls, Len(wk[w].calls) - 2, Len(wk[w].calls))
\* the calls among the worker's sink calls that are in set S
CallsIn(w, S) == {p \in 1..Len(wk[w].calls) : wk[w].calls[p] \in S}
\* the events of the given kind among the worker's events
EventsOfKind(w, kind) == {p \in 1..Len(wk[w].events) : wk[w].events[p].ev = kind}
\* what download_file reports on its way out for item, saved or failed with e
SavedCalls(item) ==
    <<LogCall("Saved: " \o TargetPath(item)),
      StatusCall("Finished: " \o FileName(item)), ReadyCall("Ready")>>
FailedCalls(e) ==
    <<LogCall("Failed: " \o e), StatusCall("Error: " \o e), ReadyCall("Ready")>>

\* C20: when download_file has returned, its last three sink calls were the
\* 'Saved' log line, the 'Finished' status and Ready; when it has raised, and
\* already when it is about to raise, they were the 'Failed' line with the
\* exception's message, the 'Error' status and Ready.  Every call ends in one
\* of the two ways only: the worker has logged as many 'Saved' lines as calls
\* returned and as many 'Failed' lines as calls raised.
C20_SavedOrFailedThenReady ==
    \A w \in Workers :
        LET events == wk[w].events
            last   == events[Len(events)]
        IN  /\ (Pc(w) = "item" /\ events # <<>> /\ last.ev = "ok") =>
                    LastThreeCalls(w) = SavedCalls(wk[w].items[last.idx])
            /\ (Pc(w) = "item" /\ events # <<>> /\ last.ev = "fail") =>
                    LastThreeCalls(w) = FailedCalls(last.exc)
            /\ Pc(w) = "d_raise" => LastThreeCalls(w) = FailedCalls(wk[w].exc)
            /\ Cardinality(CallsIn(w, {SavedCalls(it)[1] : it \in Range(wk[w].items)}))
                    = Cardinality(EventsOfKind(w, "ok"))
            /\ Cardinality(CallsIn(w, {FailedCalls(o.exc)[1] : o \in TransferOutcomes}))
                    = Cardinality(EventsOfKind(w, "fail"))
                        + (IF Pc(w) = "d_raise" THEN 1 ELSE 0)

\* the first call has returned and the second has raised after a progress line
C20_Witness ==
    \E w \in Workers :
        /\ Pc(w) = "item" /\ Len(wk[w].events) = 4
        /\ wk[w].events[2].ev = "ok"
        /\ wk[w].events[4].ev = "fail"
        /\ wk[w].events[4].exc = "No space left on device"

\* the lines the worker has logged, up to its 'Batch Download Finished' line
LoggedToFinish(w) ==
    LET texts == TextsOf(wk[w].calls, "log")
        k     == CHOOSE i \in 1..Len(texts) : texts[i] = "--- Batch Download Finished ---"
    IN  SubSeq(texts, 1, k)

\* C22: when a batch during which no other batch ran has written its log
\* file, the file holds, line by line and in their order, exactly the lines
\* that worker logged from 'Batch Download Started' to 'Batch Download
\* Finished': no line of an earlier batch and not the 'Log saved to' line.
C22_LogFileIsThisBatch ==
    \A w \in Workers :
        (wk[w].alone /\ Pc(w) \in {"log_saved", "done"} /\ ~WriteFailed(w)) =>
            /\ wk[w].log_name \in DOMAIN log_files
            /\ log_files[wk[w].log_name] = LinesText(LoggedToFinish(w))
            /\ LoggedToFinish(w)[1] = "--- Batch Download Started ---"
            /\ Len(TextsOf(wk[w].calls, "log")) - Len(LoggedToFinish(w))
                    = (IF Pc(w) = "done" THEN 1 ELSE 0)

\* two batches, one after the other, have each written their log file
C22_Witness ==
    \E w, u \in Workers :
        /\ w # u /\ Pc(w) = "done" /\ Pc(u) = "done"
        /\ wk[w].alone /\ wk[u].alone
        /\ wk[u].log_name = "successlog1.txt" /\ wk[w].log_name = "successlog2.txt"
        /\ DOMAIN log_files = {"successlog1.txt", "successlog2.txt"}
====
